---- MODULE Spec2Model ----
(***************************************************************************)
(* TileEx (src/main.go): period detection per line, concurrent scan of     *)
(* rows then columns, frequency aggregation, threshold selection and crop. *)
(*                                                                         *)
(* src/main.go holds two versions of the program: the current one          *)
(* (lines 1-312) and an older one (lines 314-526).  Go slices are 0-based; *)
(* a sequence s of the model holds Go element i at s[i+1] (see At).        *)
(***************************************************************************)
EXTENDS Integers, Sequences, FiniteSets, TLC

VARIABLES
  \* ---- the program (main, lines 178-312)
  width, height, img,            \* the decoded image: img[<<x, y>>] is img.At(x, y)
  inputExt, setLossy, setLossless,
  preferFrequency, tolerance,    \* per axis: row/colPreferFrequency, row/colTolerance
  pc,                            \* position of the main goroutine
  imageFormat,
  wg,                            \* counter of the shared sync.WaitGroup
  workers,                       \* per axis, per line: state of its goroutine
  result,                        \* per axis: buffered content of resultRow / resultCol
  closed,                        \* per axis: channel closed
  closer,                        \* per axis: state of the goroutine wg.Wait(); close(ch)
  frequencyMap,                  \* the map of the running frequencyPairs call
  pairs, totalFrequency,         \* per axis: what frequencyPairs returned
  periodicity, share,            \* per axis: selected period and reported share
  srcRect, targetImage, outputWritten, stdout,
  \* ---- a period detector applied to one line
  line, detector, detected,
  \* ---- aggregator and selector applied to one multiset of periods
  selArr, selPrefer, selTolerance, selPairs, selTotal, selOut,
  \* ---- both versions of the crop code applied to one scanned image
  cropIn, cropPeriods, cropRect, cropNew, cropOld,
  \* ---- the line goroutines of the two passes on the processors of the runtime
  numProc,                       \* -number-of-processes
  maxProcs,                      \* the runtime's GOMAXPROCS setting
  schedIn,                       \* numRows, numCols and format of the image
  schedPc,                       \* position of main
  goroutines                     \* the line goroutines of the current pass

mainVars == <<width, height, img, inputExt, setLossy, setLossless, preferFrequency,
              tolerance, pc, imageFormat, wg, workers, result, closed, closer,
              frequencyMap, pairs, totalFrequency, periodicity, share, srcRect,
              targetImage, outputWritten, stdout>>
lineVars == <<line, detector, detected>>
selVars == <<selArr, selPrefer, selTolerance, selPairs, selTotal, selOut>>
cropVars == <<cropIn, cropPeriods, cropRect, cropNew, cropOld>>
schedVars == <<numProc, maxProcs, schedIn, schedPc, goroutines>>
vars == <<mainVars, lineVars, selVars, cropVars, schedVars>>

----------------------------------------------------------------------------
(* Bounds of the model                                                     *)

\* longest line given to a detector on its own
MaxLen == 6
\* largest image width and height of the concurrent program
MaxW == 2
MaxH == 2
\* most pixels of an image of the concurrent program
MaxPixels == 4
\* largest crop offset given on the command line
MaxOffset == 1
\* largest channel of the colors given to ColorDiff on its own
MaxChannel == 255
\* processing units of the host (runtime.NumCPU())
NumCPU == 2
\* largest -number-of-processes
MaxProc == 2
\* most rows and most columns of an image scanned on the processors
SchedMaxLines == 2
\* most lines of one axis given to the aggregator on its own
MaxLines == 4
\* largest period given to the aggregator on its own
MaxPeriod == 3
\* largest image width and height given to the two crop versions
CropMaxW == 3
CropMaxH == 2
\* most pixels of an image given to the two crop versions
CropMaxPixels == 6
\* largest crop offset given to the two crop versions
CropMaxOffset == 2

----------------------------------------------------------------------------
(* Colors and lines                                                        *)

\* type Color struct { R, G, B uint32 }
Color(r, g, b) == [R |-> r, G |-> g, B |-> b]
Black == Color(0, 0, 0)
White == Color(1, 1, 1)
Palette == {Black, White}

\* Go's s[i] for a slice held as a sequence
At(s, i) == s[i + 1]

\* A detector either returns a period or panics (index out of range).
Returned(v) == [panic |-> FALSE, value |-> v]
Panicked == [panic |-> TRUE, value |-> 0]

----------------------------------------------------------------------------
(* ArrayPeriodicityPNG / ArrayPeriodicity: the prefix function             *)

\* a fallback that restarts the match instead of following the prefix array
FallBackReset(colors, prefixArray, i, j) ==
  IF j > 0 /\ At(colors, i) # At(colors, j) THEN 0 ELSE j

\* for j > 0 && colors[i] != colors[j] { j = prefixArray[j - 1] }
RECURSIVE FallBack(_, _, _, _)
FallBack(colors, prefixArray, i, j) ==
  IF j > 0 /\ At(colors, i) # At(colors, j)
  THEN FallBack(colors, prefixArray, i, At(prefixArray, j - 1))
  ELSE j

\* the loop for i := 1; i < n; i++, entered with the given i and j
RECURSIVE PrefixLoop(_, _, _, _)
PrefixLoop(colors, prefixArray, i, j) ==
  IF i < Len(colors)
  THEN LET j1 == FallBack(colors, prefixArray, i, j)
           j2 == IF At(colors, i) = At(colors, j1) THEN j1 + 1 ELSE j1
       IN PrefixLoop(colors, [prefixArray EXCEPT ![i + 1] = j2], i + 1, j2)
  ELSE prefixArray

\* prefixArray after the loop; make([]int, n) is all zero
PrefixArray(colors) == PrefixLoop(colors, [k \in 1..Len(colors) |-> 0], 1, 0)

\* return n - prefixArray[n - 1]: with n = 0 the index -1 is out of range
ArrayPeriodicityPNG(colors) ==
  LET n == Len(colors)
  IN IF n = 0 THEN Panicked ELSE Returned(n - At(PrefixArray(colors), n - 1))

\* the older version's detector, the same code
ArrayPeriodicity(colors) ==
  LET n == Len(colors)
  IN IF n = 0 THEN Panicked ELSE Returned(n - At(PrefixArray(colors), n - 1))

----------------------------------------------------------------------------
(* ColorDiff and ArrayPeriodicityJPGPlus                                   *)
(*                                                                         *)
(* int is 64 bits wide.  x.R - y.R is a uint32 subtraction: for x.R < y.R  *)
(* it is 2^32 - e with e = y.R - x.R, and (2^32 - e)^2 wraps modulo 2^64   *)
(* to e^2 - e * 2^33.  An int of the model is the pair [wraps, sq]         *)
(* standing for sq - wraps * 2^33; with the channels and line lengths of   *)
(* the model sq stays far below 2^33 and nothing else wraps.               *)

WideZero == [wraps |-> 0, sq |-> 0]
WideAdd(a, b) == [wraps |-> a.wraps + b.wraps, sq |-> a.sq + b.sq]
\* a < b on the ints the pairs stand for
WideLess(a, b) == a.wraps > b.wraps \/ (a.wraps = b.wraps /\ a.sq < b.sq)

\* var R int = int(x.R - y.R); R*R
ChannelSquare(xc, yc) ==
  IF xc >= yc
  THEN [wraps |-> 0, sq |-> (xc - yc) * (xc - yc)]
  ELSE [wraps |-> yc - xc, sq |-> (yc - xc) * (yc - xc)]

ColorDiff(x, y) ==
  WideAdd(WideAdd(ChannelSquare(x.R, y.R), ChannelSquare(x.G, y.G)),
          ChannelSquare(x.B, y.B))

\* for idx, color := range colors { sum += ColorDiff(colors[(idx + k) % n], color) }
RECURSIVE DiffSum(_, _, _)
DiffSum(colors, k, idx) ==
  IF idx < Len(colors)
  THEN WideAdd(ColorDiff(At(colors, (idx + k) % Len(colors)), At(colors, idx)),
               DiffSum(colors, k, idx + 1))
  ELSE WideZero

\* the loop for k := 1; k < n; k++, entered with the given k, minsum, minidx
RECURSIVE ShiftLoopPlus(_, _, _, _)
ShiftLoopPlus(colors, k, minsum, minidx) ==
  IF k < Len(colors)
  THEN LET sum == DiffSum(colors, k, 0)
       IN IF k = 1 THEN ShiftLoopPlus(colors, k + 1, sum, minidx)
          ELSE IF WideLess(sum, minsum) THEN ShiftLoopPlus(colors, k + 1, sum, k)
          ELSE ShiftLoopPlus(colors, k + 1, minsum, minidx)
  ELSE minidx

ArrayPeriodicityJPGPlus(colors) == Returned(ShiftLoopPlus(colors, 1, WideZero, 1))

----------------------------------------------------------------------------
(* Gray and ArrayPeriodicityJPG (not called by main)                       *)
(*                                                                         *)
(* Gray is held in thousandths: 299 r + 587 g + 114 b.  On a line of two   *)
(* colors every non-zero term of a sum is the same float64, so the         *)
(* comparison of two float64 sums is the comparison of these integers.     *)

Gray(color) == 299 * color.R + 587 * color.G + 114 * color.B

Abs(v) == IF v < 0 THEN 0 - v ELSE v

RECURSIVE GraySum(_, _, _)
GraySum(colors, k, idx) ==
  IF idx < Len(colors)
  THEN Abs(Gray(At(colors, (idx + k) % Len(colors))) - Gray(At(colors, idx)))
       + GraySum(colors, k, idx + 1)
  ELSE 0

RECURSIVE ShiftLoopGray(_, _, _, _)
ShiftLoopGray(colors, k, minsum, minidx) ==
  IF k < Len(colors)
  THEN LET sum == GraySum(colors, k, 0)
       IN IF k = 1 THEN ShiftLoopGray(colors, k + 1, sum, minidx)
          ELSE IF sum < minsum THEN ShiftLoopGray(colors, k + 1, sum, k)
          ELSE ShiftLoopGray(colors, k + 1, minsum, minidx)
  ELSE minidx

ArrayPeriodicityJPG(colors) == Returned(ShiftLoopGray(colors, 1, 0, 1))

----------------------------------------------------------------------------
(* frequencyPairs                                                          *)
(*                                                                         *)
(* A pair []int{num, freq} is the tuple <<num, freq>>: Go's pair[0] is     *)
(* pair[1] of the model and Go's pair[1] is pair[2].                       *)

EmptyMap == [num \in {} |-> 0]

\* frequencyMap[num]++
Tally(fm, num) ==
  IF num \in DOMAIN fm THEN [fm EXCEPT ![num] = @ + 1] ELSE fm @@ (num :> 1)

\* for num := range arr { frequencyMap[num]++ } over a closed channel holding
\* arr: the periods at positions from..to-1, received in that order into the
\* map fm.  The range is walked as two consecutive halves, which is the same
\* left-to-right walk with an evaluation depth of log2 of its length.  (The
\* map after a non-empty half is never empty: the test on it only makes TLC
\* evaluate the first half before the second.)
RECURSIVE RangeLoop(_, _, _, _)
RangeLoop(fm, arr, from, to) ==
  IF to = from THEN fm
  ELSE IF to = from + 1 THEN Tally(fm, At(arr, from))
  ELSE LET mid == (from + to) \div 2
           half == RangeLoop(fm, arr, from, mid)
       IN IF DOMAIN half = {} THEN half ELSE RangeLoop(half, arr, mid, to)

\* totalFrequency += freq over the map
RECURSIVE TotalOf(_, _)
TotalOf(fm, nums) ==
  IF nums = {} THEN 0
  ELSE LET num == CHOOSE v \in nums : TRUE
       IN fm[num] + TotalOf(fm, nums \ {num})

PairChoice(prefer) == IF prefer THEN 1 ELSE 0

\* an ordering that ranks by period whatever the flag
SortedByPeriod(fm, prefer) ==
  LET P == {<<num, fm[num]>> : num \in DOMAIN fm}
      n == Cardinality(P)
  IN {s \in [1..n -> P] :
        /\ \A i, j \in 1..n : i # j => s[i] # s[j]
        /\ \A i, j \in 1..n : i < j => s[i][1] >= s[j][1]}

\* The pairs in an order sort.Slice can leave them in.  The range over the
\* map is in no fixed order and sort.Slice is not stable: every order that
\* is descending in pair[pairChoice] can come out.
Sorted(fm, prefer) ==
  LET P == {<<num, fm[num]>> : num \in DOMAIN fm}
      n == Cardinality(P)
      key == PairChoice(prefer) + 1
  IN {s \in [1..n -> P] :
        /\ \A i, j \in 1..n : i # j => s[i] # s[j]
        /\ \A i, j \in 1..n : i < j => s[i][key] >= s[j][key]}

\* what frequencyPairs can return once the range loop has built fm
FrequencyPairsOf(fm, prefer) ==
  {[pairs |-> s, totalFrequency |-> TotalOf(fm, DOMAIN fm)] : s \in Sorted(fm, prefer)}

\* frequencyPairs on a channel that is closed and holds arr
FrequencyPairs(arr, prefer) == FrequencyPairsOf(RangeLoop(EmptyMap, arr, 0, Len(arr)), prefer)

----------------------------------------------------------------------------
(* Tolerance and selection (main)                                          *)
(*                                                                         *)
(* A float64 tolerance is the fraction [num, den].  The tolerances of the  *)
(* model are such that float64(total) * tolerance, truncated by int(), is  *)
(* the integer quotient computed here for every total the model reaches.   *)

Fraction(n, d) == [num |-> n, den |-> d]
DefaultTolerance == Fraction(1, 10)

\* an adjustment that keeps the caller's tolerance also with preferFrequency
AdjustToleranceKeep(prefer, tol) == Fraction(tol.num, tol.den * 100)

\* if rowPreferFrequency { rowTolerance = 0.0 } else { rowTolerance = rowTolerance / 100.0 }
AdjustTolerance(prefer, tol) ==
  IF prefer THEN Fraction(0, 1) ELSE Fraction(tol.num, tol.den * 100)

\* int(float64(rowTotalFrequency) * float64(rowTolerance))
Threshold(total, tol) == (total * tol.num) \div tol.den

\* a scan that stops at the last pair instead of running past the end
RECURSIVE SkipLoopClamped(_, _, _)
SkipLoopClamped(prs, threshold, idx) ==
  IF idx + 1 < Len(prs) /\ At(prs, idx)[2] < threshold
  THEN SkipLoopClamped(prs, threshold, idx + 1)
  ELSE idx

\* for idx < len(pairs) && pairs[idx][1] < threshold { idx += 1 }
RECURSIVE SkipLoop(_, _, _)
SkipLoop(prs, threshold, idx) ==
  IF idx < Len(prs) /\ At(prs, idx)[2] < threshold
  THEN SkipLoop(prs, threshold, idx + 1)
  ELSE idx

NoSelection == [panic |-> FALSE, idx |-> 0, period |-> 0, count |-> 0, total |-> 0]

\* Lines 259-266: the index, the printed share count/total*100 and the
\* period.  idx % len(pairs) with no pair is an integer division by zero.
Select(prs, total, tol) ==
  IF Len(prs) = 0
  THEN [panic |-> TRUE, idx |-> 0, period |-> 0, count |-> 0, total |-> total]
  ELSE LET idx == SkipLoop(prs, Threshold(total, tol), 0)
           chosen == At(prs, idx % Len(prs))
       IN [panic |-> FALSE, idx |-> idx, period |-> chosen[1],
           count |-> chosen[2], total |-> total]

----------------------------------------------------------------------------
(* Crop (main): image.Rect, image.NewRGBA and draw.Draw                    *)

Min(a, b) == IF a < b THEN a ELSE b
Max(a, b) == IF a < b THEN b ELSE a

\* image.Rect swaps the coordinates of an axis given in the wrong order
Rect(x0, y0, x1, y1) ==
  [Min |-> [X |-> Min(x0, x1), Y |-> Min(y0, y1)],
   Max |-> [X |-> Max(x0, x1), Y |-> Max(y0, y1)]]

\* the zero pixel of image.NewRGBA
Transparent == [R |-> 0, G |-> 0, B |-> 0, A |-> 0]

\* draw.Draw(targetImage, dstRect, img, sp, draw.Src) into a fresh
\* tileWidth x tileHeight buffer: the rectangle is clipped to the source,
\* the pixels outside it keep the zero value.
Draw(tileWidth, tileHeight, w, h, im, sp) ==
  [p \in (0..(tileWidth - 1)) \X (0..(tileHeight - 1)) |->
     IF sp.X + p[1] \in 0..(w - 1) /\ sp.Y + p[2] \in 0..(h - 1)
     THEN im[<<sp.X + p[1], sp.Y + p[2]>>]
     ELSE Transparent]

\* srcRect := image.Rect(offsetX, offsetY, offsetX+tileWidth, offsetY+tileHeight)
SrcRectNew(offsetX, offsetY, tileWidth, tileHeight) ==
  Rect(offsetX, offsetY, offsetX + tileWidth, offsetY + tileHeight)

\* the older version: srcRect := image.Rect(offsetX, offsetY, tileWidth, tileHeight)
SrcRectOld(offsetX, offsetY, tileWidth, tileHeight) ==
  Rect(offsetX, offsetY, tileWidth, tileHeight)

----------------------------------------------------------------------------
(* Images                                                                  *)

Axis == {"row", "col"}

Images(w, h) == [(0..(w - 1)) \X (0..(h - 1)) -> Palette]

\* rowColors of processRow / colColors of processCol
RowColors(w, im, rowIdx) == [k \in 1..w |-> im[<<k - 1, rowIdx>>]]
ColColors(h, im, colIdx) == [k \in 1..h |-> im[<<colIdx, k - 1>>]]

LOSSLESS == 0
LOSSY == 1

\* if imageFormat == LOSSY { ...JPGPlus } else { ...PNG }
Detect(format, colors) ==
  IF format = LOSSY THEN ArrayPeriodicityJPGPlus(colors) ELSE ArrayPeriodicityPNG(colors)

----------------------------------------------------------------------------
(* Values of the variables of a part that is not running                   *)

MainIdle ==
  /\ width = 0 /\ height = 0 /\ img = <<>>
  /\ inputExt = ".png" /\ setLossy = FALSE /\ setLossless = FALSE
  /\ preferFrequency = [a \in Axis |-> FALSE]
  /\ tolerance = [a \in Axis |-> DefaultTolerance]
  /\ pc = "off"
  /\ imageFormat = LOSSY
  /\ wg = 0
  /\ workers = [a \in Axis |-> <<>>]
  /\ result = [a \in Axis |-> <<>>]
  /\ closed = [a \in Axis |-> FALSE]
  /\ closer = [a \in Axis |-> "none"]
  /\ frequencyMap = EmptyMap
  /\ pairs = [a \in Axis |-> <<>>]
  /\ totalFrequency = [a \in Axis |-> 0]
  /\ periodicity = [a \in Axis |-> 0]
  /\ share = [a \in Axis |-> NoSelection]
  /\ srcRect = Rect(0, 0, 0, 0)
  /\ targetImage = <<>>
  /\ outputWritten = FALSE
  /\ stdout = <<>>

LineIdle == line = <<>> /\ detector = "off" /\ detected = Returned(0)

SelIdle ==
  /\ selArr = <<>> /\ selPrefer = FALSE /\ selTolerance = DefaultTolerance
  /\ selPairs = <<>> /\ selTotal = 0
  /\ selOut = [stage |-> "off", sel |-> NoSelection]

NoCrop == [done |-> FALSE, image |-> <<>>]

CropIdle ==
  /\ cropIn = [width |-> 0, height |-> 0, img |-> <<>>,
               preferFrequency |-> [a \in Axis |-> FALSE], offsetX |-> 0, offsetY |-> 0]
  /\ cropPeriods = [stage |-> "off", row |-> 0, col |-> 0]
  /\ cropRect = [new |-> Rect(0, 0, 0, 0), old |-> Rect(0, 0, 0, 0)]
  /\ cropNew = NoCrop /\ cropOld = NoCrop

SchedIdle ==
  /\ numProc = 0 /\ maxProcs = 0 /\ schedIn = [numRows |-> 0, numCols |-> 0, imageFormat |-> LOSSLESS]
  /\ schedPc = "off" /\ goroutines = <<>>

----------------------------------------------------------------------------
(* LineSpec: each period detector applied to a line                        *)

Lines == UNION {[1..n -> Palette] : n \in 0..MaxLen}

\* the arguments x, y of a call of ColorDiff, as the line <<x, y>>
Channels == {0, 1, MaxChannel}
DiffColors == {Color(r, g, b) : r \in Channels, g \in Channels, b \in Channels}
DiffArgs == {<<x, y>> : x \in DiffColors, y \in DiffColors}

LineInit ==
  /\ line \in Lines \cup DiffArgs /\ detector = "none" /\ detected = Returned(0)
  /\ MainIdle /\ SelIdle /\ CropIdle /\ SchedIdle

RunPNG ==
  /\ detector = "none"
  /\ detector' = "ArrayPeriodicityPNG"
  /\ detected' = ArrayPeriodicityPNG(line)
  /\ UNCHANGED <<line, mainVars, selVars, cropVars, schedVars>>

RunArrayPeriodicity ==
  /\ detector = "none"
  /\ detector' = "ArrayPeriodicity"
  /\ detected' = ArrayPeriodicity(line)
  /\ UNCHANGED <<line, mainVars, selVars, cropVars, schedVars>>

RunJPGPlus ==
  /\ detector = "none"
  /\ detector' = "ArrayPeriodicityJPGPlus"
  /\ detected' = ArrayPeriodicityJPGPlus(line)
  /\ UNCHANGED <<line, mainVars, selVars, cropVars, schedVars>>

RunJPG ==
  /\ detector = "none"
  /\ detector' = "ArrayPeriodicityJPG"
  /\ detected' = ArrayPeriodicityJPG(line)
  /\ UNCHANGED <<line, mainVars, selVars, cropVars, schedVars>>

\* ColorDiff(x, y) on the two colors of a line of length 2
RunColorDiff ==
  /\ detector = "none"
  /\ Len(line) = 2
  /\ detector' = "ColorDiff"
  /\ detected' = Returned(ColorDiff(line[1], line[2]))
  /\ UNCHANGED <<line, mainVars, selVars, cropVars, schedVars>>

LineNext == RunPNG \/ RunArrayPeriodicity \/ RunJPGPlus \/ RunJPG \/ RunColorDiff

LineSpec == LineInit /\ [][LineNext]_vars

----------------------------------------------------------------------------
(* SelSpec: tolerance adjustment, frequencyPairs and the selection applied *)
(* to the periods of one axis                                              *)

\* 90 lines of period 4 and 10 lines of period 7
ExampleArr == [i \in 1..100 |-> IF i <= 90 THEN 4 ELSE 7]

SelArrs == UNION {[1..n -> 1..MaxPeriod] : n \in 0..MaxLines} \cup {ExampleArr}

\* -row-tolerance / -col-tolerance in percent: the default 0.1, 50, 95, 100
SelTolerances == {DefaultTolerance, Fraction(50, 1), Fraction(95, 1), Fraction(100, 1)}

SelInit ==
  /\ selArr \in SelArrs /\ selPrefer \in BOOLEAN /\ selTolerance \in SelTolerances
  /\ selPairs = <<>> /\ selTotal = 0
  /\ selOut = [stage |-> "start", sel |-> NoSelection]
  /\ MainIdle /\ LineIdle /\ CropIdle /\ SchedIdle

\* lines 197-201
SelFlags ==
  /\ selOut.stage = "start"
  /\ selTolerance' = AdjustTolerance(selPrefer, selTolerance)
  /\ selOut' = [selOut EXCEPT !.stage = "flags"]
  /\ UNCHANGED <<selArr, selPrefer, selPairs, selTotal, mainVars, lineVars, cropVars, schedVars>>

\* line 258, on the closed channel holding every period of the axis
SelAggregate ==
  /\ selOut.stage = "flags"
  /\ \E r \in FrequencyPairs(selArr, selPrefer) :
       /\ selPairs' = r.pairs
       /\ selTotal' = r.totalFrequency
  /\ selOut' = [selOut EXCEPT !.stage = "aggregated"]
  /\ UNCHANGED <<selArr, selPrefer, selTolerance, mainVars, lineVars, cropVars, schedVars>>

\* lines 259-266
SelSelect ==
  /\ selOut.stage = "aggregated"
  /\ selOut' = [stage |-> "selected", sel |-> Select(selPairs, selTotal, selTolerance)]
  /\ UNCHANGED <<selArr, selPrefer, selTolerance, selPairs, selTotal,
                 mainVars, lineVars, cropVars, schedVars>>

SelNext == SelFlags \/ SelAggregate \/ SelSelect

SelSpec == SelInit /\ [][SelNext]_vars

----------------------------------------------------------------------------
(* Spec: the program, main (lines 178-312) with its goroutines             *)

\* -row-tolerance / -col-tolerance in percent: the default 0.1, and 50
Tolerances == {DefaultTolerance, Fraction(50, 1)}

Dims == {d \in (0..MaxW) \X (0..MaxH) : d[1] * d[2] <= MaxPixels}

\* numRows := img.Bounds().Max.Y, numCols := img.Bounds().Max.X
NumLines(a) == IF a = "row" THEN height ELSE width

\* the colors processRow / processCol hand to the detector
LineColors(a, idx) ==
  IF a = "row" THEN RowColors(width, img, idx) ELSE ColColors(height, img, idx)

Init ==
  /\ \E d \in Dims :
       /\ width = d[1] /\ height = d[2]
       /\ img \in Images(d[1], d[2])
       /\ workers = [a \in Axis |->
                      [idx \in 0..((IF a = "row" THEN d[2] ELSE d[1]) - 1) |-> "idle"]]
  /\ inputExt \in {".png", ".jpg"}
  /\ setLossy \in BOOLEAN /\ setLossless \in BOOLEAN
  /\ preferFrequency \in [Axis -> BOOLEAN]
  /\ tolerance \in [Axis -> Tolerances]
  /\ pc = "flags"
  /\ imageFormat = LOSSY
  /\ wg = 0
  /\ result = [a \in Axis |-> <<>>]
  /\ closed = [a \in Axis |-> FALSE]
  /\ closer = [a \in Axis |-> "none"]
  /\ frequencyMap = EmptyMap
  /\ pairs = [a \in Axis |-> <<>>]
  /\ totalFrequency = [a \in Axis |-> 0]
  /\ periodicity = [a \in Axis |-> 0]
  /\ share = [a \in Axis |-> NoSelection]
  /\ srcRect = Rect(0, 0, 0, 0)
  /\ targetImage = <<>>
  /\ outputWritten = FALSE
  /\ stdout = <<>>
  /\ LineIdle /\ SelIdle /\ CropIdle /\ SchedIdle

LaunchPc(a) == IF a = "row" THEN "launchRow" ELSE "launchCol"
TallyPc(a) == IF a = "row" THEN "tallyRow" ELSE "tallyCol"
SelectPc(a) == IF a = "row" THEN "selectRow" ELSE "selectCol"

\* the process has not ended in a panic (pc = "panic": the runtime has ended
\* it, or main itself has panicked)
Alive == pc \notin {"off", "panic"}

\* lines 197-207
ParseFlags ==
  /\ pc = "flags"
  /\ tolerance' = [a \in Axis |-> AdjustTolerance(preferFrequency[a], tolerance[a])]
  /\ pc' = "format"
  /\ UNCHANGED <<width, height, img, inputExt, setLossy, setLossless, preferFrequency,
                 imageFormat, wg, workers, result, closed, closer, frequencyMap, pairs,
                 totalFrequency, periodicity, share, srcRect, targetImage,
                 outputWritten, stdout, lineVars, selVars, cropVars, schedVars>>

\* lines 222-241 when the two flags do not conflict
ImageFormat(lossy, lossless, ext) ==
  IF lossy \/ lossless
  THEN (IF lossless THEN LOSSLESS ELSE LOSSY)
  ELSE (IF ext = ".png" THEN LOSSLESS ELSE LOSSY)

\* a test that lets the two flags pass together
ConflictIgnored(lossy, lossless) == FALSE

\* if setLossy && setLossless (line 224)
Conflict(lossy, lossless) == lossy /\ lossless

\* lines 222-241
DetermineFormat ==
  /\ pc = "format"
  /\ IF Conflict(setLossy, setLossless)
     THEN /\ stdout' = Append(stdout,
                         "Error: Please select only one of -set-lossy or -set-lossless")
          /\ pc' = "aborted"
          /\ UNCHANGED imageFormat
     ELSE /\ imageFormat' = ImageFormat(setLossy, setLossless, inputExt)
          /\ stdout' = Append(stdout, IF imageFormat' = LOSSLESS
                                      THEN "File type: LOSSLESS" ELSE "File type: LOSSY")
          /\ pc' = "launchRow"
  /\ UNCHANGED <<width, height, img, inputExt, setLossy, setLossless, preferFrequency,
                 tolerance, wg, workers, result, closed, closer, frequencyMap, pairs,
                 totalFrequency, periodicity, share, srcRect, targetImage,
                 outputWritten, lineVars, selVars, cropVars, schedVars>>

\* an Add that counts every goroutine twice
AddTwice(counter, delta) == counter + 2 * delta

\* wg.Add(delta)
Add(counter, delta) == counter + delta

\* one iteration of the launch loop: wg.Add(1); go processRow/processCol(...)
Launch(a) ==
  /\ pc = LaunchPc(a)
  /\ \E idx \in DOMAIN workers[a] :
       /\ workers[a][idx] = "idle"
       /\ \A k \in DOMAIN workers[a] : k < idx => workers[a][k] # "idle"
       /\ workers' = [workers EXCEPT ![a][idx] = "running"]
  /\ wg' = Add(wg, 1)
  /\ UNCHANGED <<width, height, img, inputExt, setLossy, setLossless, preferFrequency,
                 tolerance, pc, imageFormat, result, closed, closer, frequencyMap, pairs,
                 totalFrequency, periodicity, share, srcRect, targetImage,
                 outputWritten, stdout, lineVars, selVars, cropVars, schedVars>>

\* the loop is over: go func() { wg.Wait(); close(ch) }(), then main enters
\* frequencyPairs, which makes its map
SpawnCloser(a) ==
  /\ pc = LaunchPc(a)
  /\ \A idx \in DOMAIN workers[a] : workers[a][idx] # "idle"
  /\ closer' = [closer EXCEPT ![a] = "waiting"]
  /\ frequencyMap' = EmptyMap
  /\ pc' = TallyPc(a)
  /\ UNCHANGED <<width, height, img, inputExt, setLossy, setLossless, preferFrequency,
                 tolerance, imageFormat, wg, workers, result, closed, pairs,
                 totalFrequency, periodicity, share, srcRect, targetImage,
                 outputWritten, stdout, lineVars, selVars, cropVars, schedVars>>

\* make(chan int, numRows) / make(chan int, numCols)
Capacity(a) == NumLines(a)

\* processRow / processCol up to the send: sample the line, detect, send.
\* When the detector panics, or the send finds the channel closed, the
\* goroutine panics: nothing is sent, its deferred wg.Done() is still to run
\* and the other goroutines go on until the runtime ends the process.  A
\* send on a full channel blocks.
Process(a, idx) ==
  /\ Alive
  /\ workers[a][idx] = "running"
  /\ LET out == Detect(imageFormat, LineColors(a, idx))
     IN IF out.panic \/ closed[a]
        THEN /\ workers' = [workers EXCEPT ![a][idx] = "panicking"]
             /\ UNCHANGED result
        ELSE /\ Len(result[a]) < Capacity(a)
             /\ result' = [result EXCEPT ![a] = Append(@, out.value)]
             /\ workers' = [workers EXCEPT ![a][idx] = "sent"]
  /\ UNCHANGED <<width, height, img, inputExt, setLossy, setLossless, preferFrequency,
                 tolerance, pc, imageFormat, wg, closed, closer, frequencyMap, pairs,
                 totalFrequency, periodicity, share, srcRect, targetImage,
                 outputWritten, stdout, lineVars, selVars, cropVars, schedVars>>

\* defer wg.Done(), run when the goroutine returns after its send and also
\* while it panics: the counter is decremented; a negative counter panics.
\* A goroutine that has panicked and run its deferred call is crashing: the
\* runtime is about to end the process.
Done(a, idx) ==
  /\ Alive
  /\ workers[a][idx] \in {"sent", "panicking"}
  /\ wg' = wg - 1
  /\ workers' = [workers EXCEPT ![a][idx] =
                   IF wg - 1 >= 0 /\ workers[a][idx] = "sent" THEN "done" ELSE "crashing"]
  /\ UNCHANGED <<width, height, img, inputExt, setLossy, setLossless, preferFrequency,
                 tolerance, pc, imageFormat, result, closed, closer, frequencyMap, pairs,
                 totalFrequency, periodicity, share, srcRect, targetImage,
                 outputWritten, stdout, lineVars, selVars, cropVars, schedVars>>

\* a Wait that returns whatever the counter
WaitReturnsAtOnce(counter) == TRUE

\* wg.Wait() returns when the counter is zero
WaitReturns(counter) == counter = 0

\* wg.Wait() of the closing goroutine
CloserWait(a) ==
  /\ Alive
  /\ closer[a] = "waiting"
  /\ WaitReturns(wg)
  /\ closer' = [closer EXCEPT ![a] = "closing"]
  /\ UNCHANGED <<width, height, img, inputExt, setLossy, setLossless, preferFrequency,
                 tolerance, pc, imageFormat, wg, workers, result, closed, frequencyMap,
                 pairs, totalFrequency, periodicity, share, srcRect, targetImage,
                 outputWritten, stdout, lineVars, selVars, cropVars, schedVars>>

\* close(resultRow) / close(resultCol): closing a closed channel panics
CloserClose(a) ==
  /\ Alive
  /\ closer[a] = "closing"
  /\ IF closed[a]
     THEN closer' = [closer EXCEPT ![a] = "crashing"] /\ UNCHANGED closed
     ELSE /\ closed' = [closed EXCEPT ![a] = TRUE]
          /\ closer' = [closer EXCEPT ![a] = "done"]
  /\ UNCHANGED <<width, height, img, inputExt, setLossy, setLossless, preferFrequency,
                 tolerance, pc, imageFormat, wg, workers, result, frequencyMap, pairs,
                 totalFrequency, periodicity, share, srcRect, targetImage,
                 outputWritten, stdout, lineVars, selVars, cropVars, schedVars>>

\* a goroutine has panicked and its deferred calls have run: the runtime
\* ends the process
Fatal ==
  /\ Alive
  /\ \E a \in Axis :
       \/ closer[a] = "crashing"
       \/ \E idx \in DOMAIN workers[a] : workers[a][idx] = "crashing"
  /\ pc' = "panic"
  /\ UNCHANGED <<width, height, img, inputExt, setLossy, setLossless, preferFrequency,
                 tolerance, imageFormat, wg, workers, result, closed, closer,
                 frequencyMap, pairs, totalFrequency, periodicity, share, srcRect,
                 targetImage, outputWritten, stdout, lineVars, selVars, cropVars,
                 schedVars>>

\* frequencyPairs, one iteration of for num := range arr { frequencyMap[num]++ }
Receive(a) ==
  /\ pc = TallyPc(a)
  /\ result[a] # <<>>
  /\ frequencyMap' = Tally(frequencyMap, Head(result[a]))
  /\ result' = [result EXCEPT ![a] = Tail(@)]
  /\ UNCHANGED <<width, height, img, inputExt, setLossy, setLossless, preferFrequency,
                 tolerance, pc, imageFormat, wg, workers, closed, closer, pairs,
                 totalFrequency, periodicity, share, srcRect, targetImage,
                 outputWritten, stdout, lineVars, selVars, cropVars, schedVars>>

\* a range that ends as soon as the channel is empty
RangeEndsWhenEmpty(buffer, isClosed) == buffer = <<>>

\* a range over a channel ends when the channel is closed and drained
RangeEnds(buffer, isClosed) == buffer = <<>> /\ isClosed

\* frequencyPairs from the end of the range loop to its return
ReturnPairs(a) ==
  /\ pc = TallyPc(a)
  /\ RangeEnds(result[a], closed[a])
  /\ \E r \in FrequencyPairsOf(frequencyMap, preferFrequency[a]) :
       /\ pairs' = [pairs EXCEPT ![a] = r.pairs]
       /\ totalFrequency' = [totalFrequency EXCEPT ![a] = r.totalFrequency]
  /\ frequencyMap' = EmptyMap
  /\ pc' = SelectPc(a)
  /\ UNCHANGED <<width, height, img, inputExt, setLossy, setLossless, preferFrequency,
                 tolerance, imageFormat, wg, workers, result, closed, closer,
                 periodicity, share, srcRect, targetImage, outputWritten, stdout,
                 lineVars, selVars, cropVars, schedVars>>

\* lines 259-266 / 283-290
SelectPeriod(a) ==
  /\ pc = SelectPc(a)
  /\ LET s == Select(pairs[a], totalFrequency[a], tolerance[a])
     IN IF s.panic
        THEN pc' = "panic" /\ UNCHANGED <<share, periodicity, stdout>>
        ELSE /\ share' = [share EXCEPT ![a] = s]
             /\ periodicity' = [periodicity EXCEPT ![a] = s.period]
             /\ stdout' = stdout \o
                  (IF a = "row"
                   THEN <<"Row periodicity is %f percent of total frequency.",
                          "Row Periodicity: %d">>
                   ELSE <<"Col periodicity is %f percent of total frequency.",
                          "Col Periodicity: %d">>)
             /\ pc' = IF a = "row" THEN "launchCol" ELSE "crop"
  /\ UNCHANGED <<width, height, img, inputExt, setLossy, setLossless, preferFrequency,
                 tolerance, imageFormat, wg, workers, result, closed, closer,
                 frequencyMap, pairs, totalFrequency, srcRect, targetImage,
                 outputWritten, lineVars, selVars, cropVars, schedVars>>

\* lines 292-299, with the offsets -x-offset and -y-offset, read here only
Crop ==
  /\ pc = "crop"
  /\ \E offsetX \in 0..MaxOffset, offsetY \in 0..MaxOffset :
       /\ srcRect' = SrcRectNew(offsetX, offsetY, periodicity["row"], periodicity["col"])
       /\ targetImage' = Draw(periodicity["row"], periodicity["col"],
                              width, height, img, srcRect'.Min)
  /\ pc' = "encode"
  /\ UNCHANGED <<width, height, img, inputExt, setLossy, setLossless, preferFrequency,
                 tolerance, imageFormat, wg, workers, result, closed, closer,
                 frequencyMap, pairs, totalFrequency, periodicity, share,
                 outputWritten, stdout, lineVars, selVars, cropVars, schedVars>>

\* lines 301-311
Encode ==
  /\ pc = "encode"
  /\ outputWritten' = TRUE
  /\ stdout' = Append(stdout, "Image cropped and saved successfully.")
  /\ pc' = "done"
  /\ UNCHANGED <<width, height, img, inputExt, setLossy, setLossless, preferFrequency,
                 tolerance, imageFormat, wg, workers, result, closed, closer,
                 frequencyMap, pairs, totalFrequency, periodicity, share, srcRect,
                 targetImage, lineVars, selVars, cropVars, schedVars>>

LaunchRow == Launch("row")
LaunchCol == Launch("col")
SpawnCloserRow == SpawnCloser("row")
SpawnCloserCol == SpawnCloser("col")
ProcessRow == \E idx \in DOMAIN workers["row"] : Process("row", idx)
ProcessCol == \E idx \in DOMAIN workers["col"] : Process("col", idx)
DoneRow == \E idx \in DOMAIN workers["row"] : Done("row", idx)
DoneCol == \E idx \in DOMAIN workers["col"] : Done("col", idx)
CloserWaitRow == CloserWait("row")
CloserWaitCol == CloserWait("col")
CloserCloseRow == CloserClose("row")
CloserCloseCol == CloserClose("col")
ReceiveRow == Receive("row")
ReceiveCol == Receive("col")
ReturnPairsRow == ReturnPairs("row")
ReturnPairsCol == ReturnPairs("col")
SelectRow == SelectPeriod("row")
SelectCol == SelectPeriod("col")

Next ==
  \/ ParseFlags \/ DetermineFormat
  \/ LaunchRow \/ SpawnCloserRow \/ ProcessRow \/ DoneRow
  \/ CloserWaitRow \/ CloserCloseRow \/ ReceiveRow \/ ReturnPairsRow \/ SelectRow
  \/ LaunchCol \/ SpawnCloserCol \/ ProcessCol \/ DoneCol
  \/ CloserWaitCol \/ CloserCloseCol \/ ReceiveCol \/ ReturnPairsCol \/ SelectCol
  \/ Crop \/ Encode \/ Fatal

Spec == Init /\ [][Next]_vars

\* The Go scheduler never leaves every runnable goroutine waiting: as long as
\* some goroutine (main, a line worker, a closer) can take a step, a step is
\* taken.  This is the weakest fairness the scheduler gives; fairness to each
\* goroutine separately implies it.
Fairness == WF_vars(Next)

FairSpec == Init /\ [][Next]_vars /\ Fairness

----------------------------------------------------------------------------
(* CropSpec: the crop code of both versions of main (lines 292-299 and     *)
(* 506-513) on one image scanned without -set-lossy, as a PNG, at the      *)
(* default tolerance: both versions then detect with the same code.        *)

CropDims == {d \in (1..CropMaxW) \X (1..CropMaxH) : d[1] * d[2] <= CropMaxPixels}

CropInit ==
  /\ \E d \in CropDims :
       \E im \in Images(d[1], d[2]) :
         \E pf \in [Axis -> BOOLEAN] :
           \E ox \in 0..CropMaxOffset, oy \in 0..CropMaxOffset :
             cropIn = [width |-> d[1], height |-> d[2], img |-> im,
                       preferFrequency |-> pf, offsetX |-> ox, offsetY |-> oy]
  /\ cropPeriods = [stage |-> "start", row |-> 0, col |-> 0]
  /\ cropRect = [new |-> Rect(0, 0, 0, 0), old |-> Rect(0, 0, 0, 0)]
  /\ cropNew = NoCrop /\ cropOld = NoCrop
  /\ MainIdle /\ LineIdle /\ SelIdle /\ SchedIdle

\* the periods the workers of an axis send, in the order of the lines
PeriodsOfAxis(a) ==
  IF a = "row"
  THEN [k \in 1..cropIn.height |->
          ArrayPeriodicity(RowColors(cropIn.width, cropIn.img, k - 1)).value]
  ELSE [k \in 1..cropIn.width |->
          ArrayPeriodicity(ColColors(cropIn.height, cropIn.img, k - 1)).value]

\* the selections main can make for an axis (lines 432-436 and 472-479)
SelectionsOfAxis(a) ==
  {Select(r.pairs, r.totalFrequency,
          AdjustTolerance(cropIn.preferFrequency[a], DefaultTolerance)) :
     r \in FrequencyPairs(PeriodsOfAxis(a), cropIn.preferFrequency[a])}

\* main up to the crop: both scans and both selections
CropScan ==
  /\ cropPeriods.stage = "start"
  /\ \E sr \in SelectionsOfAxis("row"), sc \in SelectionsOfAxis("col") :
       cropPeriods' = [stage |-> "scanned", row |-> sr.period, col |-> sc.period]
  /\ UNCHANGED <<cropIn, cropRect, cropNew, cropOld, mainVars, lineVars, selVars, schedVars>>

\* lines 292-299
CropNewVersion ==
  /\ cropPeriods.stage = "scanned" /\ ~cropNew.done
  /\ LET r == SrcRectNew(cropIn.offsetX, cropIn.offsetY, cropPeriods.row, cropPeriods.col)
     IN /\ cropRect' = [cropRect EXCEPT !.new = r]
        /\ cropNew' = [done |-> TRUE,
                       image |-> Draw(cropPeriods.row, cropPeriods.col, cropIn.width,
                                      cropIn.height, cropIn.img, r.Min)]
  /\ UNCHANGED <<cropIn, cropPeriods, cropOld, mainVars, lineVars, selVars, schedVars>>

\* lines 506-513
CropOldVersion ==
  /\ cropPeriods.stage = "scanned" /\ ~cropOld.done
  /\ LET r == SrcRectOld(cropIn.offsetX, cropIn.offsetY, cropPeriods.row, cropPeriods.col)
     IN /\ cropRect' = [cropRect EXCEPT !.old = r]
        /\ cropOld' = [done |-> TRUE,
                       image |-> Draw(cropPeriods.row, cropPeriods.col, cropIn.width,
                                      cropIn.height, cropIn.img, r.Min)]
  /\ UNCHANGED <<cropIn, cropPeriods, cropNew, mainVars, lineVars, selVars, schedVars>>

CropNext == CropScan \/ CropNewVersion \/ CropOldVersion

CropSpec == CropInit /\ [][CropNext]_vars

----------------------------------------------------------------------------
(* SchedSpec: the line goroutines of the row pass and of the column pass   *)
(* on the processors of the Go runtime.  main sets the number of           *)
(* processors (line 209) and starts one goroutine per line (lines 248-251, *)
(* 272-275); a goroutine executes while it holds a processor, the runtime  *)
(* gives a free processor to a runnable goroutine and may take it back.    *)
(* A goroutine whose detector panics, and main when a pass leaves it no    *)
(* pair to select from (lines 264, 288), end the process.                  *)

\* runtime.GOMAXPROCS(n): n < 1 leaves the setting as it is
GOMAXPROCS(setting, n) == IF n < 1 THEN setting ELSE n

SchedInit ==
  /\ numProc \in 0..MaxProc
  /\ maxProcs = NumCPU
  /\ schedIn \in [numRows : 0..SchedMaxLines, numCols : 0..SchedMaxLines,
                   imageFormat : {LOSSLESS, LOSSY}]
  /\ schedPc = "start"
  /\ goroutines = <<>>
  /\ MainIdle /\ LineIdle /\ SelIdle /\ CropIdle

SchedLines(a) == IF a = "row" THEN schedIn.numRows ELSE schedIn.numCols

\* the process has not ended in a panic
SchedAlive == schedPc # "panic"

\* the pass main is in
SchedAxis == IF schedPc \in {"launchRow", "tallyRow"} THEN "row" ELSE "col"

\* the length of a line of the pass: a row has numCols pixels, a column numRows
SchedLineLen(a) == IF a = "row" THEN schedIn.numCols ELSE schedIn.numRows

\* the detector of a line goroutine panics: only on a line without pixels
\* (a line with pixels makes no detector panic)
SchedPanics(a) == SchedLineLen(a) = 0 /\ Detect(schedIn.imageFormat, <<>>).panic

\* the line goroutines that hold a processor
Executing == {i \in DOMAIN goroutines : goroutines[i] = "executing"}

\* line 209
SetMaxProcs ==
  /\ schedPc = "start"
  /\ maxProcs' = GOMAXPROCS(maxProcs, numProc)
  /\ schedPc' = "launchRow"
  /\ UNCHANGED <<numProc, schedIn, goroutines, mainVars, lineVars, selVars, cropVars>>

\* go processRow(...) / go processCol(...): the goroutine is runnable
Go(a) ==
  /\ schedPc = LaunchPc(a)
  /\ Len(goroutines) < SchedLines(a)
  /\ goroutines' = Append(goroutines, "runnable")
  /\ UNCHANGED <<numProc, maxProcs, schedIn, schedPc, mainVars, lineVars, selVars,
                 cropVars>>

\* the launch loop is over: main waits in frequencyPairs for the pass to end
AwaitPass(a) ==
  /\ schedPc = LaunchPc(a)
  /\ Len(goroutines) = SchedLines(a)
  /\ schedPc' = TallyPc(a)
  /\ UNCHANGED <<numProc, maxProcs, schedIn, goroutines, mainVars, lineVars, selVars,
                 cropVars>>

\* every goroutine of the pass has called wg.Done(): the channel is closed,
\* frequencyPairs returns and main selects the period.  With no pair (a pass
\* without lines, or no goroutine that sent) the selection panics at
\* idx % len(pairs), lines 264 / 288; else main goes on, to the column pass
\* or to the crop.
EndPass(a) ==
  /\ schedPc = TallyPc(a)
  /\ \A i \in DOMAIN goroutines : goroutines[i] \in {"done", "panicked"}
  /\ IF \E i \in DOMAIN goroutines : goroutines[i] = "done"
     THEN /\ schedPc' = IF a = "row" THEN "launchCol" ELSE "crop"
          /\ goroutines' = <<>>
     ELSE /\ schedPc' = "panic"
          /\ UNCHANGED goroutines
  /\ UNCHANGED <<numProc, maxProcs, schedIn, mainVars, lineVars, selVars, cropVars>>

\* the runtime runs a runnable goroutine on a free processor
Acquire ==
  /\ SchedAlive
  /\ \E i \in DOMAIN goroutines :
       /\ goroutines[i] = "runnable"
       /\ Cardinality(Executing) < maxProcs
       /\ goroutines' = [goroutines EXCEPT ![i] = "executing"]
  /\ UNCHANGED <<numProc, maxProcs, schedIn, schedPc, mainVars, lineVars, selVars,
                 cropVars>>

\* the runtime preempts a goroutine
Preempt ==
  /\ SchedAlive
  /\ \E i \in DOMAIN goroutines :
       /\ goroutines[i] = "executing"
       /\ goroutines' = [goroutines EXCEPT ![i] = "runnable"]
  /\ UNCHANGED <<numProc, maxProcs, schedIn, schedPc, mainVars, lineVars, selVars,
                 cropVars>>

\* processRow / processCol runs to its end: detection, send and wg.Done()
\* are over and it has returned, or its detector has panicked, nothing was
\* sent and the deferred wg.Done() has run
Return ==
  /\ SchedAlive
  /\ \E i \in DOMAIN goroutines :
       /\ goroutines[i] = "executing"
       /\ goroutines' = [goroutines EXCEPT ![i] =
                           IF SchedPanics(SchedAxis) THEN "panicked" ELSE "done"]
  /\ UNCHANGED <<numProc, maxProcs, schedIn, schedPc, mainVars, lineVars, selVars,
                 cropVars>>

\* a line goroutine has panicked and its deferred call has run: the runtime
\* ends the process
SchedFatal ==
  /\ SchedAlive
  /\ \E i \in DOMAIN goroutines : goroutines[i] = "panicked"
  /\ schedPc' = "panic"
  /\ UNCHANGED <<numProc, maxProcs, schedIn, goroutines, mainVars, lineVars, selVars,
                 cropVars>>

GoRow == Go("row")
GoCol == Go("col")
AwaitRows == AwaitPass("row")
AwaitCols == AwaitPass("col")
EndRows == EndPass("row")
EndCols == EndPass("col")

SchedNext ==
  \/ SetMaxProcs \/ GoRow \/ AwaitRows \/ EndRows \/ GoCol \/ AwaitCols \/ EndCols
  \/ Acquire \/ Preempt \/ Return \/ SchedFatal

SchedSpec == SchedInit /\ [][SchedNext]_vars

----------------------------------------------------------------------------
(* C1                                                                      *)

\* p is a period of s: s[i] = s[i+p] for all 0 <= i < n-p
IsPeriod(s, p) == \A i \in 0..(Len(s) - p - 1) : At(s, i) = At(s, i + p)

SmallestPeriod(s) ==
  CHOOSE p \in 1..Len(s) : IsPeriod(s, p) /\ \A q \in 1..(p - 1) : ~IsPeriod(s, q)

\* s has a border of length j: its first j colors are its last j colors
IsBorder(s, j) == \A k \in 0..(j - 1) : At(s, k) = At(s, Len(s) - j + k)

\* failure[n-1]: the longest proper border of the whole line
LongestBorder(s) ==
  CHOOSE j \in 0..(Len(s) - 1) :
    IsBorder(s, j) /\ \A k \in (j + 1)..(Len(s) - 1) : ~IsBorder(s, k)

\* s is its first p colors repeated m times
IsRepeat(s, p, m) == Len(s) = p * m /\ \A i \in 0..(Len(s) - 1) : At(s, i) = At(s, i % p)

LosslessRan == detector \in {"ArrayPeriodicityPNG", "ArrayPeriodicity"}

\* C1: on a line of length n >= 1 the lossless detector returns
\* n - failure[n-1], the smallest p in [1, n] with colors[i] = colors[i+p]
\* for all i < n-p; it returns p on a block of length p with no shorter
\* period repeated m >= 2 times, and n on a line with no border.
C1_LosslessSmallestPeriod ==
  (LosslessRan /\ Len(line) >= 1) =>
    /\ ~detected.panic
    /\ detected.value = Len(line) - LongestBorder(line)
    /\ detected.value = SmallestPeriod(line)
    /\ \A p \in 1..Len(line) : \A m \in 2..Len(line) :
         (IsRepeat(line, p, m) /\ SmallestPeriod(SubSeq(line, 1, p)) = p)
           => detected.value = p
    /\ (\A j \in 1..(Len(line) - 1) : ~IsBorder(line, j)) => detected.value = Len(line)

\* a block of three colors with no shorter period, repeated twice, detected as 3
C1_Witness ==
  /\ LosslessRan /\ Len(line) = 6
  /\ IsRepeat(line, 3, 2) /\ SmallestPeriod(SubSeq(line, 1, 3)) = 3
  /\ detected = Returned(3)

----------------------------------------------------------------------------
(* C2                                                                      *)

\* C2: on a line of length 0 or 1 no detector panics.
C2_DegenerateLineNeverCrashes ==
  (detector \notin {"none", "off"} /\ Len(line) <= 1) => ~detected.panic

----------------------------------------------------------------------------
(* C4, C5, C6                                                              *)

Selected == selOut.stage = "selected" /\ ~selOut.sel.panic

\* the share count / totalLines of a pair is below the tolerance
ShareBelow(pair, total, tol) == pair[2] * tol.den < tol.num * total

\* the pair fails the test of the selection loop
CountBelow(pair, total, tol) == pair[2] < Threshold(total, tol)

IsExample == selArr = ExampleArr /\ ~selPrefer

\* C4 as amended: with preferFrequency false, when every pair fails the
\* loop's test count >= int(totalLines * t), the index runs to the length
\* of the list and wraps to the first pair of the sort order, the pair
\* with the largest period, reported with its own count and the total; for
\* 90 lines of period 4, 10 of period 7 and tolerance 0.95 that is period 7
\* at 10 percent.
C4_WrapToLargestPeriod ==
  (Selected /\ ~selPrefer) =>
    /\ (\A k \in 1..Len(selPairs) : CountBelow(selPairs[k], selTotal, selTolerance))
         => /\ selOut.sel.idx = Len(selPairs)
            /\ selOut.sel.period = selPairs[1][1]
            /\ selOut.sel.count = selPairs[1][2]
            /\ selOut.sel.total = Len(selArr)
            /\ \A k \in 1..Len(selPairs) : selPairs[k][1] <= selOut.sel.period
    /\ (IsExample /\ selTolerance = Fraction(95, 100))
         => /\ selOut.sel.period = 7
            /\ selOut.sel.count * 100 = 10 * selOut.sel.total

\* the example at tolerance 0.95 has wrapped around
C4_Witness ==
  /\ Selected /\ IsExample /\ selTolerance = Fraction(95, 100)
  /\ selOut.sel.idx = 2 /\ selOut.sel.period = 7

\* C4 as stated: with preferFrequency false, when every pair's share is
\* below the tolerance the first pair of the list is returned with its
\* share, and the example at tolerance 0.95 gives period 4 at 90 percent.
C4_Original ==
  (Selected /\ ~selPrefer) =>
    /\ (\A k \in 1..Len(selPairs) : ShareBelow(selPairs[k], selTotal, selTolerance))
         => /\ selOut.sel.period = selPairs[1][1]
            /\ selOut.sel.count = selPairs[1][2]
    /\ (IsExample /\ selTolerance = Fraction(95, 100))
         => /\ selOut.sel.period = 4
            /\ selOut.sel.count * 100 = 90 * selOut.sel.total

\* C5: when some pair's share reaches the tolerance, the pair returned is
\* the first of the sort order whose share count / totalLines >= t, every
\* pair before it having a share below t; the example at tolerance 0.5
\* gives period 4.
C5_FirstQualifyingShare ==
  Selected =>
    /\ (\E k \in 1..Len(selPairs) : ~ShareBelow(selPairs[k], selTotal, selTolerance))
         => /\ selOut.sel.idx < Len(selPairs)
            /\ ~ShareBelow(selPairs[selOut.sel.idx + 1], selTotal, selTolerance)
            /\ \A k \in 1..selOut.sel.idx :
                 ShareBelow(selPairs[k], selTotal, selTolerance)
            /\ selOut.sel.period = selPairs[selOut.sel.idx + 1][1]
    /\ (IsExample /\ selTolerance = Fraction(50, 100)) => selOut.sel.period = 4

\* C6: with preferFrequency true the tolerance is 0 and the selected period
\* is one whose count is the largest of all pairs.
C6_PreferFrequencyPicksMaxCount ==
  (Selected /\ selPrefer) =>
    /\ selTolerance.num = 0
    /\ selOut.sel.idx = 0
    /\ <<selOut.sel.period, selOut.sel.count>> \in
         {selPairs[k] : k \in 1..Len(selPairs)}
    /\ \A k \in 1..Len(selPairs) : selPairs[k][2] <= selOut.sel.count

\* the most frequent period is selected although a larger period exists
\* and its share is below one half
C6_Witness ==
  /\ Selected /\ selPrefer /\ Len(selPairs) = 3
  /\ selOut.sel.count = 2 /\ selOut.sel.total = 4
  /\ \E k \in 1..Len(selPairs) : selPairs[k][1] > selOut.sel.period

----------------------------------------------------------------------------
(* C3, C9, C10: the scan of an axis                                        *)

AllDone(a) == \A idx \in DOMAIN workers[a] : workers[a][idx] = "done"

\* frequencyPairs has returned for the axis and the process has not ended
\* in a panic
Aggregated(a) ==
  IF a = "row"
  THEN pc \in {"selectRow", "launchCol", "tallyCol", "selectCol", "crop", "encode", "done"}
  ELSE pc \in {"selectCol", "crop", "encode", "done"}

\* the lines of the axis whose detected period is p
LinesWithPeriod(a, p) ==
  {idx \in 0..(NumLines(a) - 1) : Detect(imageFormat, LineColors(a, idx)) = Returned(p)}

RECURSIVE SumCounts(_, _)
SumCounts(prs, k) == IF k = 0 THEN 0 ELSE prs[k][2] + SumCounts(prs, k - 1)

\* C3: whatever the interleaving, the pairs frequencyPairs returns for an
\* axis have distinct periods and counts >= 1, the counts sum to the number
\* of lines of the axis, and each pair counts exactly the lines of that
\* axis with its period.
C3_PairsPartitionLines ==
  \A a \in Axis :
    Aggregated(a) =>
      /\ \A k, m \in 1..Len(pairs[a]) : k # m => pairs[a][k][1] # pairs[a][m][1]
      /\ \A k \in 1..Len(pairs[a]) : pairs[a][k][2] >= 1
      /\ SumCounts(pairs[a], Len(pairs[a])) = NumLines(a)
      /\ totalFrequency[a] = NumLines(a)
      /\ \A k \in 1..Len(pairs[a]) :
           pairs[a][k][2] = Cardinality(LinesWithPeriod(a, pairs[a][k][1]))
      /\ \A idx \in 0..(NumLines(a) - 1) :
           \E k \in 1..Len(pairs[a]) :
             Detect(imageFormat, LineColors(a, idx)) = Returned(pairs[a][k][1])

\* C9 as stated: no period is tallied while a worker of the axis has not
\* finished.
C9_Original ==
  \A a \in Axis :
    (pc = TallyPc(a) /\ frequencyMap # EmptyMap) => AllDone(a)

\* the workers of the axis that have sent their period and returned
SentAndReturned(a) == {idx \in DOMAIN workers[a] : workers[a][idx] = "done"}

\* every worker of the axis has run to its end and called wg.Done(): it has
\* returned after its send, or it has panicked without sending
AllFinished(a) ==
  \A idx \in DOMAIN workers[a] : workers[a][idx] \in {"done", "crashing"}

\* C9 as amended: frequencyPairs tallies periods as they arrive, but it
\* returns its pairs, and the selection runs, only after every worker of
\* the axis has run to its end (wg.Done() called), the channel is closed
\* and every period that was sent has been received and tallied.
C9_PairsOnlyAfterAllDone ==
  \A a \in Axis :
    Aggregated(a) =>
      /\ AllFinished(a)
      /\ closed[a]
      /\ result[a] = <<>>
      /\ closer[a] = "done"
      /\ SumCounts(pairs[a], Len(pairs[a])) = Cardinality(SentAndReturned(a))

\* the pairs of two rows have been returned
C9_Witness ==
  /\ pc = "selectRow" /\ height = 2
  /\ SumCounts(pairs["row"], Len(pairs["row"])) = 2
  /\ AllDone("row")

\* C10: no column worker is launched and main is not in the column phase
\* until every row worker has finished, the row channel is closed and the
\* row period is selected.
C10_ColumnsAfterRows ==
  ((\E idx \in DOMAIN workers["col"] : workers["col"][idx] # "idle")
     \/ pc \in {"launchCol", "tallyCol", "selectCol"}
     \/ closer["col"] # "none")
    => /\ AllDone("row")
       /\ closed["row"]
       /\ wg = Cardinality({idx \in DOMAIN workers["col"] :
                              workers["col"][idx] \in {"running", "sent", "panicking"}})
       /\ periodicity["row"] >= 1
       /\ \E k \in 1..Len(pairs["row"]) : pairs["row"][k][1] = periodicity["row"]

\* a column worker runs after two row workers have finished
C10_Witness ==
  /\ height = 2 /\ AllDone("row")
  /\ \E idx \in DOMAIN workers["col"] : workers["col"][idx] = "running"

----------------------------------------------------------------------------
(* C7, C8: the crop                                                        *)

\* the rectangle cropped by main exceeds the image
CropExceeds ==
  \/ srcRect.Min.X + periodicity["row"] > width
  \/ srcRect.Min.Y + periodicity["col"] > height

\* C7: when offsetX + rowPeriod exceeds the width or offsetY + colPeriod the
\* height, the crop ends in a reported error: no output is written, no
\* success is reported and no pixel of the tile is left unfilled.
C7_OutOfBoundsCropIsAnError ==
  (pc \in {"encode", "done"} /\ CropExceeds) =>
    /\ ~outputWritten
    /\ \A k \in 1..Len(stdout) : stdout[k] # "Image cropped and saved successfully."
    /\ \A p \in DOMAIN targetImage : targetImage[p] # Transparent

CropInside ==
  /\ cropIn.offsetX + cropPeriods.row <= cropIn.width
  /\ cropIn.offsetY + cropPeriods.col <= cropIn.height

\* the tile of the given crop is rowPeriod x colPeriod and its pixel (i, j)
\* is the source pixel (offsetX + i, offsetY + j)
ExactTile(image) ==
  /\ DOMAIN image = (0..(cropPeriods.row - 1)) \X (0..(cropPeriods.col - 1))
  /\ \A p \in DOMAIN image :
       image[p] = cropIn.img[<<cropIn.offsetX + p[1], cropIn.offsetY + p[2]>>]

\* C8: for a crop rectangle inside the image, both versions of the crop
\* code produce the rowPeriod x colPeriod tile whose pixel (i, j) is the
\* source pixel (offsetX + i, offsetY + j).
C8_BothVersionsCropExactly ==
  (cropNew.done /\ cropOld.done /\ CropInside) =>
    /\ ExactTile(cropNew.image)
    /\ ExactTile(cropOld.image)
    /\ cropNew.image = cropOld.image

----------------------------------------------------------------------------
(* C11: termination under fair scheduling                                  *)

\* the program starts on an image with a row and a column, flags not in conflict
ValidRun == pc = "flags" /\ width >= 1 /\ height >= 1 /\ ~(setLossy /\ setLossless)

\* main is at the crop step; every worker has finished, both channels are
\* closed and drained
ScansComplete ==
  /\ pc = "crop"
  /\ \A a \in Axis :
       /\ closed[a] /\ result[a] = <<>> /\ closer[a] = "done"
       /\ \A idx \in DOMAIN workers[a] : workers[a][idx] = "done"

\* C11: under fair scheduling every run on an image with at least one row and
\* one column and a configuration without conflict reaches the crop step with
\* every line worker completed, both result channels closed and both range
\* loops of frequencyPairs ended; no such run stops or deadlocks on the way.
C11_FairRunReachesCrop == ValidRun ~> ScansComplete

\* a run on the largest image has reached the crop step
C11_Witness ==
  /\ pc = "crop" /\ width = MaxW /\ height = MaxH
  /\ \A a \in Axis : closed[a] /\ \A idx \in DOMAIN workers[a] : workers[a][idx] = "done"

----------------------------------------------------------------------------
(* C12: the selection as a function of the periods, the flag, the tolerance*)

\* the periods that some run of frequencyPairs and of the selection on the
\* same lines, flag and tolerance selects (tol is the adjusted tolerance)
SelectablePeriods(arr, prefer, tol) ==
  {Select(r.pairs, r.totalFrequency, tol).period : r \in FrequencyPairs(arr, prefer)}

\* C12: the selected period is a function of the multiset of per-line
\* periods, of preferFrequency and of the tolerance: every iteration order of
\* the tally map and every order the sort leaves equal keys in lead to the
\* period this run selected, also when two periods have equal counts.
C12_SelectionIsDeterministic ==
  Selected => SelectablePeriods(selArr, selPrefer, selTolerance) = {selOut.sel.period}

----------------------------------------------------------------------------
(* C13 and C16: the color distance and the detector built on it            *)

\* (x.R-y.R)^2 + (x.G-y.G)^2 + (x.B-y.B)^2 on the integers
SquaredDistance(x, y) ==
  (x.R - y.R) * (x.R - y.R) + (x.G - y.G) * (x.G - y.G) + (x.B - y.B) * (x.B - y.B)

\* the total over all positions i of the squared distance between color[i]
\* and color[(i+k) mod n]
RECURSIVE ShiftCost(_, _, _)
ShiftCost(colors, k, i) ==
  IF i < Len(colors)
  THEN SquaredDistance(At(colors, i), At(colors, (i + k) % Len(colors)))
       + ShiftCost(colors, k, i + 1)
  ELSE 0

\* the smallest shift of minimal total
BestShift(colors) ==
  CHOOSE k \in 1..(Len(colors) - 1) :
    /\ \A m \in 1..(Len(colors) - 1) : ShiftCost(colors, k, 0) <= ShiftCost(colors, m, 0)
    /\ \A m \in 1..(k - 1) : ShiftCost(colors, m, 0) > ShiftCost(colors, k, 0)

\* C13: on a line of length n >= 2 ArrayPeriodicityJPGPlus returns the
\* smallest shift k in [1, n-1] whose total squared Euclidean distance between
\* color[i] and color[(i+k) mod n] is minimal.
C13_LossyReturnsBestShift ==
  (detector = "ArrayPeriodicityJPGPlus" /\ Len(line) >= 2) =>
    (~detected.panic /\ detected.value = BestShift(line))

\* C16: ColorDiff(x, y) is the squared distance of x and y computed without
\* wraparound: it is not negative and it is ColorDiff(y, x), also when a
\* channel of x is smaller than the same channel of y.
C16_ColorDiffIsSquaredDistance ==
  detector = "ColorDiff" =>
    /\ detected.value = [wraps |-> 0, sq |-> SquaredDistance(line[1], line[2])]
    /\ ~WideLess(detected.value, WideZero)
    /\ detected.value = ColorDiff(line[2], line[1])

----------------------------------------------------------------------------
(* C14: -set-lossy together with -set-lossless                             *)

ConflictMessage == "Error: Please select only one of -set-lossy or -set-lossless"

\* C14: when both -set-lossy and -set-lossless are given, the run goes from
\* the flags to the format test and stops there with the conflict reported:
\* no row or column worker is ever launched, no closer is started, nothing is
\* sent or tallied, no period is selected and no output image is written.
C14_ConflictAbortsBeforeScanning ==
  (setLossy /\ setLossless) =>
    /\ pc \in {"flags", "format", "aborted"}
    /\ pc = "aborted" => stdout = <<ConflictMessage>>
    /\ pc # "aborted" => stdout = <<>>
    /\ wg = 0
    /\ \A a \in Axis :
         /\ \A idx \in DOMAIN workers[a] : workers[a][idx] = "idle"
         /\ closer[a] = "none" /\ ~closed[a] /\ result[a] = <<>>
         /\ pairs[a] = <<>> /\ periodicity[a] = 0 /\ share[a] = NoSelection
    /\ targetImage = <<>>
    /\ ~outputWritten

\* a run with both flags on an image that has lines to scan has aborted
C14_Witness ==
  /\ pc = "aborted" /\ setLossy /\ setLossless
  /\ width >= 1 /\ height >= 1
  /\ stdout = <<ConflictMessage>>

----------------------------------------------------------------------------
(* C15: the parallelism bound                                              *)

\* C15: at every moment of the row pass and of the column pass at most
\* numProc (-number-of-processes) line detections are executing.
C15_AtMostNumProcExecuting ==
  schedPc \in {"launchRow", "tallyRow", "launchCol", "tallyCol"} =>
    Cardinality(Executing) <= numProc

----------------------------------------------------------------------------
(* C17: the range of the periods                                           *)

\* 0 <= prefixArray[i] <= i at every index of the finished array
PrefixArrayInRange(colors) ==
  \A i \in 0..(Len(colors) - 1) :
    At(PrefixArray(colors), i) >= 0 /\ At(PrefixArray(colors), i) <= i

\* C17: a period that a detector of the scan (ArrayPeriodicityPNG,
\* ArrayPeriodicityJPGPlus) returns for a line of length n >= 0 lies in
\* [1, n-1] or is the degenerate value 0 or n; the prefix array of the
\* lossless detector satisfies 0 <= prefixArray[i] <= i and the period it
\* returns is at least 1.
C17_PeriodWithinLine ==
  /\ (detector \in {"ArrayPeriodicityPNG", "ArrayPeriodicityJPGPlus"} /\ ~detected.panic)
       => detected.value \in 0..Len(line)
  /\ (detector = "ArrayPeriodicityPNG" /\ ~detected.panic)
       => (PrefixArrayInRange(line) /\ detected.value >= 1)

----------------------------------------------------------------------------
(* C18: the channels and the shared WaitGroup                              *)

\* the goroutines counted by the WaitGroup: started, wg.Done() not yet called
Counted ==
  UNION {{<<a, idx>> : idx \in {i \in DOMAIN workers[a] :
                                  workers[a][i] \in {"running", "sent", "panicking"}}} : a \in Axis}

\* C18: a result channel is closed once, by its closer, and only when every
\* worker of its axis has sent and called wg.Done(); a worker that has yet to
\* send finds its channel open and with room for its period (the capacity
\* is the number of lines); the counter of the WaitGroup shared by the two
\* passes is the number of started workers that have not called Done, never
\* negative, and it is zero at the moment a channel is closed.
C18_CloseOnceAfterAllSends ==
  /\ wg = Cardinality(Counted)
  /\ wg >= 0
  /\ \A a \in Axis :
       /\ closed[a] <=> closer[a] = "done"
       /\ closer[a] = "closing" => (wg = 0 /\ ~closed[a])
       /\ closer[a] \in {"closing", "done"} =>
            \A idx \in DOMAIN workers[a] : workers[a][idx] = "done"
       /\ \A idx \in DOMAIN workers[a] :
            workers[a][idx] = "running" =>
              (~closed[a] /\ Len(result[a]) < Capacity(a))

----------------------------------------------------------------------------
(* C19: the selection step on every image                                  *)

\* the selection of axis a is about to run on what frequencyPairs returned
AtSelection(a) == pc = SelectPc(a)

\* C19: for every image, also one without rows or without columns, the
\* selection of each axis runs without a runtime fault: the list of pairs it
\* indexes at idx mod len(pairs) is not empty, the index lies in
\* [0, len(pairs)) and the total that divides the share is not zero.
C19_SelectionNeverFaults ==
  \A a \in Axis :
    AtSelection(a) =>
      LET s == Select(pairs[a], totalFrequency[a], tolerance[a])
      IN /\ Len(pairs[a]) > 0
         /\ ~s.panic
         /\ s.idx % Len(pairs[a]) \in 0..(Len(pairs[a]) - 1)
         /\ totalFrequency[a] # 0

====
